---------------------------- MODULE Spec2Model ----------------------------
(***************************************************************************)
(* Session Keeper (src/sessionkeeper.py): the deferred state               *)
(* reconciliation of a Gedit session saver.                                *)
(*                                                                         *)
(* The main thread runs the GTK signal handlers one at a time: each        *)
(* handler is one action.  A threading.Timer runs its callback on a thread *)
(* of its own, so the two timer callbacks (process_pending of a window,    *)
(* process_global_pending of the class) are sequences of steps that        *)
(* interleave with the handlers; a step is cut wherever the callback       *)
(* reads or writes state that a handler also touches.                      *)
(*                                                                         *)
(* Time is a discrete clock.  exit_timeout is ExitTimeout ticks and the    *)
(* 0.1 s the timers add to it is TimerSlack ticks.  A timer fires in the   *)
(* tick of its deadline and a callback that has started ends within the    *)
(* tick: the clock does not advance while a callback is due or running.    *)
(***************************************************************************)
EXTENDS Naturals, Integers, Sequences, FiniteSets, TLC

\* ------------------------------------------------------------------ bounds
MaxTime == 6
MaxWindows == 2
MaxTabs == 2
\* tab events the host delivers in a run
MaxEvents == 2

\* ------------------------------------------------------- program constants
\* static_settings: (exit-timeout, launch-timeout), in ticks
ExitTimeout == 2
LaunchTimeout == 1
\* threading.Timer(0.1 + exit_timeout, ...)
TimerSlack == 1

\* ------------------------------------------------------------- value sets
Windows == 1..MaxWindows
\* str(uuid.uuid1()) of the n-th window instance
GenUuid(w) == <<"u1", "u2", "u3", "u4", "u5">>[w]
\* a document without a location (document.get_location() is None)
NoLoc == "none"
Files == {"a", "b"}
Docs == Files \cup {NoLoc}

\* ----------------------------------------------------- dict (insertion order)
\* A Python dict keeps insertion order: a sequence of [k, v] pairs.
DictKeys(d) == {d[i].k : i \in DOMAIN d}
DictHas(d, key) == \E i \in DOMAIN d : d[i].k = key
DictGet(d, key) == d[CHOOSE i \in DOMAIN d : d[i].k = key].v
DictSet(d, key, val) ==
    IF DictHas(d, key)
    THEN [i \in DOMAIN d |-> IF d[i].k = key THEN [k |-> key, v |-> val] ELSE d[i]]
    ELSE Append(d, [k |-> key, v |-> val])
DictDel(d, key) == SelectSeq(d, LAMBDA e : e.k # key)

\* pending_states: a dict keyed by timestamp, only ever read through sorted()
EmptyQ == [s \in {} |-> <<>>]
QPut(q, stamp, rec) == [s \in (DOMAIN q) \cup {stamp} |-> IF s = stamp THEN rec ELSE q[s]]
QRestrict(q, S) == [s \in S |-> q[s]]
\* (mutation) the least element
SetMin(S) == CHOOSE m \in S : \A x \in S : m <= x
SetMax(S) == CHOOSE m \in S : \A x \in S : x <= m

\* ------------------------------------------------------------------ timers
\* self.pending_timer / cls.global_timer: None, or the Timer it references,
\* named by its deadline.  The started timers that have neither fired nor been
\* cancelled are kept per owner as the set of their deadlines.
NoTimer == -1
\* threading.Timer(0.1 + exit_timeout, callback) started at time t
Deadline(t) == t + ExitTimeout + TimerSlack
\* (mutation) the timer is forgotten without being cancelled
CancelNothing(ref, started) == started

\* if timer: timer.cancel()   (no effect on a timer that has fired)
CancelRef(ref, started) == IF ref = NoTimer THEN started ELSE started \ {ref}

VARIABLES
    clock,              \* time.time()
    events,             \* tab events delivered so far
    settings,           \* SKeeperAppActivatable.settings is not None
    store,              \* the 'window-files' value of the settings store
    loading,            \* SKeeperAppActivatable.loading
    loaded_time,        \* SKeeperAppActivatable.loaded_time
    files_per_window,   \* SKeeperAppActivatable.files_per_window
    global_pending,     \* SKeeperAppActivatable.global_pending
    global_timer,       \* SKeeperAppActivatable.global_timer
    gtimers,            \* deadlines of the started global timers
    gt,                 \* the global timer's callback thread
    quit_t0,            \* when the host began to quit (-1: it has not)
    quit,               \* the application has deactivated
    wstate,             \* per window: none, fresh, spawned, open, closed
    uuid,               \* per window: self.uuid
    content,            \* per window: its tab groups and their documents
    pending_states,     \* per window: self.pending_states
    pending_timer,      \* per window: self.pending_timer
    timers,             \* per window: deadlines of its started timers
    tp,                 \* per window: its timer's callback thread
    idle_close,         \* per window: idle_add(self.close_empty_tab) is queued
    deleted,            \* per window: it has received a delete-event
    close_at,           \* history, per window: timestamp of its delete-event (-1: none)
    claimed,            \* per window: outcome of its on_window_show
    last_commit,        \* history: the latest write to files_per_window
    added_at,           \* history, per window: time of its latest immediate record
    store0,             \* history: the persisted value at start
    burst_store         \* history: the persisted value when the quit began

vars == <<clock, events, settings, store, loading, loaded_time, files_per_window,
          global_pending, global_timer, gtimers, gt, quit_t0, quit, wstate, uuid,
          content, pending_states, pending_timer, timers, tp, idle_close, deleted, close_at,
          claimed, last_commit, added_at, store0, burst_store>>

\* ------------------------------------------------------------- get_state
\* window.get_documents(): the documents in tab order, each with its tab group
RECURSIVE GetDocuments(_, _)
GetDocuments(c, g) ==
    IF g > Len(c) THEN <<>>
    ELSE [i \in 1..Len(c[g]) |-> [group |-> g, loc |-> c[g][i]]] \o GetDocuments(c, g + 1)

\* the loop of get_state over the documents from index i on:
\* state so far, current_group (0: None)
RECURSIVE GetStateLoop(_, _, _, _)
GetStateLoop(docs, i, state, current_group) ==
    IF i > Len(docs) THEN state
    ELSE LET d == docs[i]
             opened == IF d.group # current_group THEN Append(state, <<>>) ELSE state
             n == Len(opened)
             added == IF d.loc # NoLoc
                      THEN [opened EXCEPT ![n] = Append(opened[n], d.loc)]
                      ELSE opened
         IN GetStateLoop(docs, i + 1, added, d.group)

get_state(c) == GetStateLoop(GetDocuments(c, 1), 1, <<>>, 0)

\* ------------------------------------------------------------ the replay
\* window.close_tab(tab_to_be_closed): the empty document that came with the
\* new tab group is the first tab of the last group
CloseTabToBeClosed(c) == [c EXCEPT ![Len(c)] = Tail(c[Len(c)])]

\* create_tab_from_location: a new tab in the active tab group (the last one)
CreateTab(c, uri) ==
    IF c = <<>> THEN << <<uri>> >> ELSE [c EXCEPT ![Len(c)] = Append(c[Len(c)], uri)]

\* for document_uri in files: ...   (to_close: tab_to_be_closed is set)
RECURSIVE ReplayFiles(_, _, _, _)
ReplayFiles(c, files, i, to_close) ==
    IF i > Len(files) THEN c
    ELSE LET made == CreateTab(c, files[i])
         IN ReplayFiles(IF to_close THEN CloseTabToBeClosed(made) ELSE made,
                        files, i + 1, FALSE)

\* for files in groups: ...   (group_number = g)
RECURSIVE ReplayGroups(_, _, _)
ReplayGroups(c, groups, g) ==
    IF g > Len(groups) THEN c
    ELSE LET opened == IF g > 1 THEN Append(c, <<NoLoc>>) ELSE c
         IN ReplayGroups(ReplayFiles(opened, groups[g], 1, g > 1), groups, g + 1)

Replay(groups) == ReplayGroups(<<>>, groups, 1)

\* ------------------------------------------------------- the settings value
\* json.dumps(cls.files_per_window): an object of arrays of arrays of strings
JsonRec(rec) == [t |-> "rec", v |-> rec]
\* a JSON number other than 0 in the place of a window's record
JsonNum == [t |-> "num", v |-> <<>>]
Encode(files) ==
    [kind |-> "dict",
     val |-> [i \in DOMAIN files |-> [k |-> files[i].k, v |-> JsonRec(files[i].v)]]]
\* the empty string, a string json.loads rejects, a JSON array
PayloadNone == [kind |-> "none", val |-> <<>>]
PayloadGarbage == [kind |-> "garbage", val |-> <<>>]
PayloadNonDict == [kind |-> "nondict", val |-> <<>>]
PayloadDict(d) == [kind |-> "dict", val |-> d]
\* saved_state after lines 385-398
Decode(payload) == IF payload.kind = "dict" THEN payload.val ELSE <<>>
\* `if not groups`: an empty list is falsy, a number other than 0 is not
Truthy(jv) == jv.t = "num" \/ jv.v # <<>>

\* (mutation) save_state without the test of cls.settings
save_state_always(files, old) == Encode(files)

\* save_state: the value of the store after it
save_state(files, old) == IF settings THEN Encode(files) ELSE old

\* ---------------------------------------------------------- the resolution
\* (mutation) every stamp counts as old
QOldAll(q, now) == DOMAIN q

\* (mutation) the pass keeps every entry
QKeepAll(q, now) == q

\* the stamps at least exit_timeout old, and the others, at time now
QOld(q, now) == {s \in DOMAIN q : ~(now - s < ExitTimeout)}
QKeep(q, now) == QRestrict(q, {s \in DOMAIN q : now - s < ExitTimeout})

\* (mutation) process_pending that commits without setting changed
process_pending_unsaved(w, files, now) ==
    LET q == pending_states[w]
        old == QOld(q, now)
    IN [files |-> IF old = {} THEN files ELSE DictSet(files, uuid[w], q[SetMax(old)]),
        q |-> QKeep(q, now),
        changed |-> FALSE,
        at |-> IF old = {} THEN -1 ELSE SetMax(old)]

\* process_pending(now) run to its end on the calling thread, from files:
\* the new files_per_window, the new pending_states, changed, the stamp applied
process_pending(w, files, now) ==
    LET q == pending_states[w]
        old == QOld(q, now)
    IN [files |-> IF old = {} THEN files ELSE DictSet(files, uuid[w], q[SetMax(old)]),
        q |-> QKeep(q, now),
        changed |-> old # {},
        at |-> IF old = {} THEN -1 ELSE SetMax(old)]

\* the loop of process_global_pending over global_pending from index i on
RECURSIVE GlobalApply(_, _, _, _)
GlobalApply(files, gp, i, now) ==
    IF i > Len(gp) THEN files
    ELSE LET q == gp[i].v
             old == QOld(q, now)
             applied == IF old = {} THEN files
                        ELSE IF q[SetMax(old)] # <<>>
                             THEN DictSet(files, gp[i].k, q[SetMax(old)])
                             ELSE DictDel(files, gp[i].k)
         IN GlobalApply(applied, gp, i + 1, now)

GlobalKeep(gp, now) ==
    SelectSeq([i \in DOMAIN gp |-> [k |-> gp[i].k, v |-> QKeep(gp[i].v, now)]],
              LAMBDA e : DOMAIN e.v # {})

GlobalApplied(gp, now) ==
    {[id |-> gp[i].k, at |-> SetMax(QOld(gp[i].v, now))] :
        i \in {j \in DOMAIN gp : QOld(gp[j].v, now) # {}}}

process_global_pending(files, gp, now) ==
    [files |-> GlobalApply(files, gp, 1, now),
     gp |-> GlobalKeep(gp, now),
     changed |-> GlobalApplied(gp, now) # {},
     ents |-> GlobalApplied(gp, now)]

\* ------------------------------------------------------------------- Init
A == "A"
B == "B"
Entry(key, jv) == [k |-> key, v |-> jv]
\* the persisted values the runs start from
InitPayloads ==
    { PayloadNone, PayloadGarbage, PayloadNonDict,
      PayloadDict(<< Entry(A, JsonRec(<< <<"a">> >>)) >>),
      PayloadDict(<< Entry(A, JsonRec(<< <<"a">> >>)), Entry(B, JsonRec(<< <<"b">> >>)) >>),
      PayloadDict(<< Entry(A, JsonRec(<<>>)), Entry(B, JsonRec(<< <<"a", "b">> >>)) >>),
      PayloadDict(<< Entry(A, JsonRec(<< <<"a">>, <<"b">> >>)), Entry(B, JsonRec(<<>>)) >>),
      PayloadDict(<< Entry(A, JsonRec(<< <<>>, <<"b">> >>)) >>),
      PayloadDict(<< Entry(A, JsonRec(<< <<"a">>, <<>> >>)) >>),
      PayloadDict(<< Entry(A, JsonNum) >>) }

TIdle == [pc |-> "idle", now |-> 0, stamps |-> {}, new |-> EmptyQ, val |-> <<>>,
          at |-> 0, changed |-> FALSE]
GIdle == [pc |-> "idle"]

\* the state after construction, the persisted value drawn from payloads
InitFrom(payloads, stores) ==
    /\ clock = 0
    /\ events = 0
    /\ settings \in stores
    /\ store \in payloads
    /\ loading = TRUE
    /\ loaded_time = 0
    /\ files_per_window = <<>>
    /\ global_pending = <<>>
    /\ global_timer = NoTimer
    /\ gtimers = {}
    /\ gt = GIdle
    /\ quit_t0 = -1
    /\ quit = FALSE
    /\ wstate = [w \in Windows |-> "none"]
    /\ uuid = [w \in Windows |-> GenUuid(w)]
    /\ content = [w \in Windows |-> <<>>]
    /\ pending_states = [w \in Windows |-> EmptyQ]
    /\ pending_timer = [w \in Windows |-> NoTimer]
    /\ timers = [w \in Windows |-> {}]
    /\ tp = [w \in Windows |-> TIdle]
    /\ idle_close = [w \in Windows |-> FALSE]
    /\ deleted = [w \in Windows |-> FALSE]
    /\ close_at = [w \in Windows |-> -1]
    /\ claimed = [w \in Windows |-> "none"]
    /\ last_commit = {}
    /\ added_at = [w \in Windows |-> -1]
    /\ store0 = store
    /\ burst_store = PayloadNone

Init == InitFrom(InitPayloads, BOOLEAN)

\* ----------------------------------------------------------- the host side
\* the main thread is free to deliver an event: the application runs and no
\* spawned window is inside its synchronous show()
HostIdle == ~quit /\ \A w \in Windows : wstate[w] # "spawned"
NumTabs(c) == Len(GetDocuments(c, 1))
OpenDocs(c) == {GetDocuments(c, 1)[i].loc : i \in 1..NumTabs(c)}
\* the host adds a tab for document d to tab group g (Len(c) + 1: a new group)
AddTab(c, d, g) == IF g > Len(c) THEN Append(c, <<d>>) ELSE [c EXCEPT ![g] = Append(c[g], d)]
\* the host removes tab i of tab group g; a tab group without tabs goes away
RemoveAt(seq, i) == SubSeq(seq, 1, i - 1) \o SubSeq(seq, i + 1, Len(seq))
RemoveTab(c, g, i) ==
    IF Len(c[g]) = 1 THEN RemoveAt(c, g) ELSE [c EXCEPT ![g] = RemoveAt(c[g], i)]
\* the host swaps tabs i and i + 1 of tab group g
SwapTabs(c, g, i) ==
    [c EXCEPT ![g] = [c[g] EXCEPT ![i] = c[g][i + 1], ![i + 1] = c[g][i]]]

\* history of the latest write to files_per_window: what wrote (claim, add,
\* inline, timer, global), the window id, the stamp of the entry written, the
\* `now` of the resolution, and whether the id was then in global_pending
Commit(kind, id, at, now) ==
    [kind |-> kind, id |-> id, at |-> at, now |-> now,
     late |-> DictHas(global_pending, id)]

\* --------------------------------------------------------- window creation
\* SKeeperWindowActivatable.__init__ and do_activate, for a window the user opens
WindowCreate(w) ==
    /\ HostIdle /\ quit_t0 = -1
    /\ wstate[w] = "none"
    /\ \A v \in Windows : (v < w => wstate[v] # "none") /\ wstate[v] # "fresh"
    /\ wstate' = [wstate EXCEPT ![w] = "fresh"]
    /\ UNCHANGED <<events, clock, settings, store, loading, loaded_time, files_per_window,
                   global_pending, global_timer, gtimers, gt, quit_t0, quit, uuid,
                   content, pending_states, pending_timer, timers, tp, idle_close,
                   deleted, close_at, claimed, last_commit, added_at, store0, burst_store>>

\* ------------------------------------------------------------ on_window_show
\* the first index of saved_state the loop of lines 402-432 claims (0: none)
ClaimIndex(saved, files) ==
    LET ok == {i \in DOMAIN saved : ~DictHas(files, saved[i].k) /\ Truthy(saved[i].v)}
    IN IF ok = {} THEN 0 ELSE CHOOSE i \in ok : \A j \in ok : i <= j
\* (mutation) uuids_left emptied by the loop whatever it claims
UuidsLeftNone(saved, i) == <<>>

\* uuids_left after the loop
UuidsLeft(saved, i) == IF i = 0 THEN <<>> ELSE SubSeq(saved, i + 1, Len(saved))
\* the slot of the window app.create_window() makes
NextSlot == CHOOSE v \in Windows : wstate[v] = "none" /\ \A u \in Windows : u < v => wstate[u] # "none"
HasSlot == \E v \in Windows : wstate[v] = "none"

on_window_show(w) ==
    LET saved == Decode(store)
        i == ClaimIndex(saved, files_per_window)
        left == UuidsLeft(saved, i)
        shown == [wstate EXCEPT ![w] = "open"]
    IN
    IF ~loading THEN
        /\ wstate' = shown
        /\ claimed' = [claimed EXCEPT ![w] = "late"]
        /\ UNCHANGED <<loading, loaded_time, files_per_window, uuid, content, last_commit>>
    ELSE IF ~settings THEN
        /\ wstate' = shown
        /\ claimed' = [claimed EXCEPT ![w] = "nosettings"]
        /\ UNCHANGED <<loading, loaded_time, files_per_window, uuid, content, last_commit>>
    ELSE IF i # 0 /\ saved[i].v.t = "num" THEN
        \* len(groups) raises TypeError after self.uuid = win_id
        /\ wstate' = shown
        /\ claimed' = [claimed EXCEPT ![w] = "raised"]
        /\ uuid' = [uuid EXCEPT ![w] = saved[i].k]
        /\ UNCHANGED <<loading, loaded_time, files_per_window, content, last_commit>>
    ELSE
        /\ left # <<>> => HasSlot
        /\ wstate' = IF left # <<>> THEN [shown EXCEPT ![NextSlot] = "spawned"] ELSE shown
        /\ claimed' = [claimed EXCEPT ![w] = IF i = 0 THEN "noclaim" ELSE "claimed"]
        /\ uuid' = IF i = 0 THEN uuid ELSE [uuid EXCEPT ![w] = saved[i].k]
        /\ content' = IF i = 0 THEN content
                      ELSE [content EXCEPT ![w] = Replay(saved[i].v.v)]
        /\ files_per_window' =
              IF i = 0 THEN files_per_window
              ELSE DictSet(files_per_window, saved[i].k, get_state(Replay(saved[i].v.v)))
        /\ last_commit' = IF i = 0 THEN last_commit
                          ELSE {Commit("claim", saved[i].k, clock, clock)}
        \* mark_loaded
        /\ loading' = (left # <<>>)
        /\ loaded_time' = IF left # <<>> THEN loaded_time ELSE clock

WindowShow(w) ==
    /\ ~quit
    /\ \/ wstate[w] = "spawned"
       \/ wstate[w] = "fresh" /\ quit_t0 = -1
    /\ on_window_show(w)
    /\ UNCHANGED <<events, clock, settings, store, global_pending, global_timer, gtimers, gt,
                   quit_t0, quit, pending_states, pending_timer, timers, tp,
                   idle_close, deleted, close_at, added_at, store0, burst_store>>

\* ---------------------------------------------------------- on_tab_add_event
\* just_loaded()
just_loaded == ~loading /\ clock - loaded_time < LaunchTimeout

\* (mutation) the handlers without their test of the loading flag
LoadingGuardOff == FALSE

\* `if SKeeperAppActivatable.loading: return False`, the first statement of both
\* tab handlers
LoadingGuard == loading

\* the handler, after the host has added the tab of document d: c2 is the window
on_tab_add_event(w, d, c2) ==
    IF LoadingGuard THEN
        UNCHANGED <<files_per_window, store, pending_states, pending_timer, timers,
                    idle_close, last_commit, added_at>>
    ELSE IF just_loaded /\ d = NoLoc THEN
        /\ idle_close' = [idle_close EXCEPT ![w] = @ \/ files_per_window # <<>>]
        /\ UNCHANGED <<files_per_window, store, pending_states, pending_timer, timers,
                       last_commit, added_at>>
    ELSE
        \* cancel_pending
        /\ timers' = [timers EXCEPT ![w] = CancelRef(pending_timer[w], @)]
        /\ pending_timer' = [pending_timer EXCEPT ![w] = NoTimer]
        /\ pending_states' = [pending_states EXCEPT ![w] = EmptyQ]
        /\ files_per_window' = DictSet(files_per_window, uuid[w], get_state(c2))
        /\ store' = save_state(DictSet(files_per_window, uuid[w], get_state(c2)), store)
        /\ last_commit' = {Commit("add", uuid[w], clock, clock)}
        /\ added_at' = [added_at EXCEPT ![w] = clock]
        /\ UNCHANGED idle_close

TabAdded(w, d, g) ==
    /\ HostIdle /\ quit_t0 = -1
    /\ wstate[w] = "open" /\ ~deleted[w]
    /\ NumTabs(content[w]) < MaxTabs
    /\ d = NoLoc \/ d \notin OpenDocs(content[w])
    /\ g \in 1..(Len(content[w]) + 1)
    /\ content' = [content EXCEPT ![w] = AddTab(@, d, g)]
    /\ on_tab_add_event(w, d, AddTab(content[w], d, g))
    /\ events < MaxEvents /\ events' = events + 1
    /\ UNCHANGED <<clock, settings, loading, loaded_time, global_pending, global_timer,
                   gtimers, gt, quit_t0, quit, wstate, uuid, tp, deleted, close_at, claimed,
                   store0, burst_store>>

\* ------------------------------------------------------- on_tab_change_event
\* the handler, after the host has changed the window's tabs to c2
on_tab_change_event(w, c2) ==
    IF LoadingGuard THEN
        UNCHANGED <<files_per_window, store, pending_states, pending_timer, timers,
                    last_commit>>
    ELSE
        LET pp == process_pending(w, files_per_window, clock) IN
        /\ files_per_window' = pp.files
        /\ store' = IF pp.changed THEN save_state(pp.files, store) ELSE store
        /\ last_commit' = IF pp.changed THEN {Commit("inline", uuid[w], pp.at, clock)}
                          ELSE last_commit
        /\ pending_states' = [pending_states EXCEPT ![w] = QPut(pp.q, clock, get_state(c2))]
        \* schedule_pending, after process_pending has cancelled the timer
        /\ timers' = [timers EXCEPT
                        ![w] = CancelRef(pending_timer[w], @) \cup {Deadline(clock)}]
        /\ pending_timer' = [pending_timer EXCEPT ![w] = Deadline(clock)]

TabChange(w, c2) ==
    /\ HostIdle
    /\ wstate[w] = "open"
    /\ content' = [content EXCEPT ![w] = c2]
    /\ on_tab_change_event(w, c2)
    /\ UNCHANGED <<clock, settings, loading, loaded_time, global_pending, global_timer,
                   gtimers, gt, quit_t0, quit, wstate, uuid, tp, deleted, close_at, claimed,
                   added_at, store0, burst_store>>

\* "tab-removed"
TabRemoved(w, g, i) ==
    /\ g \in DOMAIN content[w] /\ i \in DOMAIN content[w][g]
    /\ TabChange(w, RemoveTab(content[w], g, i))
    /\ events < MaxEvents /\ events' = events + 1
    /\ UNCHANGED idle_close

\* "tabs-reordered"
TabsReordered(w, g, i) ==
    /\ quit_t0 = -1 /\ ~deleted[w]
    /\ g \in DOMAIN content[w] /\ i \in DOMAIN content[w][g] /\ i + 1 \in DOMAIN content[w][g]
    /\ TabChange(w, SwapTabs(content[w], g, i))
    /\ events < MaxEvents /\ events' = events + 1
    /\ UNCHANGED idle_close

\* "active-tab-state-changed"
ActiveTabStateChanged(w) ==
    /\ quit_t0 = -1 /\ ~deleted[w]
    /\ content[w] # <<>>
    /\ TabChange(w, content[w])
    /\ events < MaxEvents /\ events' = events + 1
    /\ UNCHANGED idle_close

\* close_empty_tab, run from the idle queue: the active tab is tab i of group g
CloseEmptyTab(w, g, i) ==
    /\ idle_close[w]
    /\ idle_close' = [idle_close EXCEPT ![w] = FALSE]
    /\ g \in DOMAIN content[w] /\ i \in DOMAIN content[w][g]
    /\ IF content[w][g][i] = NoLoc
       THEN TabChange(w, RemoveTab(content[w], g, i)) /\ UNCHANGED events
       ELSE /\ HostIdle /\ wstate[w] = "open"
            /\ UNCHANGED <<events, clock, settings, store, loading, loaded_time,
                           files_per_window, global_pending, global_timer, gtimers, gt,
                           quit_t0, quit, wstate, uuid, content, pending_states,
                           pending_timer, timers, tp, deleted, close_at, claimed, last_commit,
                           added_at, store0, burst_store>>

\* ---------------------------------------------------- on_window_delete_event
\* The user closes the window.  From here on the window is closing: the host
\* takes its tabs away (TabRemoved) and destroys it (WindowDeactivate), at once
\* or after the user has answered its dialog about unsaved documents.
WindowDelete(w) ==
    /\ HostIdle /\ quit_t0 = -1
    /\ wstate[w] = "open" /\ ~deleted[w]
    /\ LET pp == process_pending(w, files_per_window, clock) IN
       /\ files_per_window' = pp.files
       /\ store' = IF pp.changed THEN save_state(pp.files, store) ELSE store
       /\ last_commit' = IF pp.changed THEN {Commit("inline", uuid[w], pp.at, clock)}
                         ELSE last_commit
       /\ pending_states' = [pending_states EXCEPT ![w] = QPut(pp.q, clock, <<>>)]
    /\ timers' = [timers EXCEPT ![w] = CancelRef(pending_timer[w], @)]
    /\ pending_timer' = [pending_timer EXCEPT ![w] = NoTimer]
    /\ deleted' = [deleted EXCEPT ![w] = TRUE]
    /\ close_at' = [close_at EXCEPT ![w] = clock]
    /\ UNCHANGED <<events, clock, settings, loading, loaded_time, global_pending, global_timer,
                   gtimers, gt, quit_t0, quit, wstate, uuid, content, tp, idle_close,
                   claimed, added_at, store0, burst_store>>

\* ------------------------------------------- do_deactivate (of a window)
\* the window is destroyed: the user closed it, or the host is quitting
WindowDeactivate(w) ==
    /\ HostIdle
    /\ wstate[w] = "open"
    /\ deleted[w] \/ quit_t0 # -1
    /\ LET pp == process_pending(w, files_per_window, clock)
           \* dump_final_states, when pending states remain
           pg == process_global_pending(pp.files, global_pending, clock)
           dump == DOMAIN pp.q # {}
           files == IF dump THEN pg.files ELSE pp.files
       IN
       /\ files_per_window' = files
       /\ store' = IF pp.changed \/ (dump /\ pg.changed)
                   THEN save_state(files, store) ELSE store
       /\ last_commit' =
             LET win == IF pp.changed THEN {Commit("inline", uuid[w], pp.at, clock)} ELSE {}
                 glo == IF dump THEN {Commit("global", e.id, e.at, clock) : e \in pg.ents}
                        ELSE {}
             IN IF win \cup glo = {} THEN last_commit ELSE win \cup glo
       /\ pending_states' = [pending_states EXCEPT ![w] = pp.q]
       /\ global_pending' = IF dump THEN DictSet(pg.gp, uuid[w], pp.q) ELSE global_pending
       \* process_global_pending cancels the global timer, schedule_global_pending
       \* starts the next one
       /\ gtimers' = IF dump THEN CancelRef(global_timer, gtimers) \cup {Deadline(clock)}
                     ELSE gtimers
       /\ global_timer' = IF dump THEN Deadline(clock) ELSE global_timer
    /\ timers' = [timers EXCEPT ![w] = CancelRef(pending_timer[w], @)]
    /\ pending_timer' = [pending_timer EXCEPT ![w] = NoTimer]
    /\ wstate' = [wstate EXCEPT ![w] = "closed"]
    /\ UNCHANGED <<events, clock, settings, loading, loaded_time, gt, quit_t0, quit, uuid,
                   content, tp, idle_close, deleted, close_at, claimed, added_at, store0, burst_store>>

\* ---------------------------------------- the host begins to quit
QuitBegin ==
    /\ HostIdle /\ quit_t0 = -1
    /\ \E w \in Windows : wstate[w] = "open"
    /\ \A w \in Windows : wstate[w] # "fresh"
    /\ quit_t0' = clock
    /\ burst_store' = store
    /\ UNCHANGED <<events, clock, settings, store, loading, loaded_time, files_per_window,
                   global_pending, global_timer, gtimers, gt, quit, wstate, uuid,
                   content, pending_states, pending_timer, timers, tp, idle_close,
                   deleted, close_at, claimed, last_commit, added_at, store0>>

\* ------------------------------------- do_deactivate (of the application)
AppDeactivate ==
    /\ HostIdle /\ quit_t0 # -1
    /\ \A w \in Windows : wstate[w] \in {"none", "closed"}
    /\ LET pg == process_global_pending(files_per_window, global_pending, clock) IN
       /\ files_per_window' = pg.files
       /\ global_pending' = pg.gp
       /\ store' = save_state(pg.files, store)
       /\ last_commit' = IF pg.changed
                         THEN {Commit("global", e.id, e.at, clock) : e \in pg.ents}
                         ELSE last_commit
    /\ gtimers' = CancelRef(global_timer, gtimers)
    /\ global_timer' = NoTimer
    /\ quit' = TRUE
    /\ UNCHANGED <<events, clock, settings, loading, loaded_time, gt, quit_t0, wstate, uuid,
                   content, pending_states, pending_timer, timers, tp, idle_close,
                   deleted, close_at, claimed, added_at, store0, burst_store>>

\* ------------------------------ the timer thread of a window: process_pending
\* the Timer's wait ends without a cancel: its thread calls process_pending()
TimerFire(w) ==
    /\ tp[w].pc = "idle"
    /\ \E d \in timers[w] :
          /\ d <= clock
          /\ timers' = [timers EXCEPT ![w] = @ \ {d}]
    /\ tp' = [tp EXCEPT ![w].pc = "lock"]
    /\ UNCHANGED <<events, clock, settings, store, loading, loaded_time, files_per_window,
                   global_pending, global_timer, gtimers, gt, quit_t0, quit, wstate,
                   uuid, content, pending_states, pending_timer, idle_close, deleted, close_at,
                   claimed, last_commit, added_at, store0, burst_store>>

\* lines 224-230: with self.timer_lock: cancel self.pending_timer, set it to None
TimerLock(w) ==
    /\ tp[w].pc = "lock"
    /\ timers' = [timers EXCEPT ![w] = CancelRef(pending_timer[w], @)]
    /\ pending_timer' = [pending_timer EXCEPT ![w] = NoTimer]
    /\ tp' = [tp EXCEPT ![w].pc = "snap"]
    /\ UNCHANGED <<events, clock, settings, store, loading, loaded_time, files_per_window,
                   global_pending, global_timer, gtimers, gt, quit_t0, quit, wstate,
                   uuid, content, pending_states, idle_close, deleted, close_at, claimed,
                   last_commit, added_at, store0, burst_store>>

\* lines 232-238: now = time.time(); sorted(self.pending_states, reverse=True)
TimerSnap(w) ==
    /\ tp[w].pc = "snap"
    /\ tp' = [tp EXCEPT ![w].pc = "scan", ![w].now = clock,
                        ![w].stamps = DOMAIN pending_states[w]]
    /\ UNCHANGED <<events, clock, settings, store, loading, loaded_time, files_per_window,
                   global_pending, global_timer, gtimers, gt, quit_t0, quit, wstate,
                   uuid, content, pending_states, pending_timer, timers, idle_close,
                   deleted, close_at, claimed, last_commit, added_at, store0, burst_store>>

\* lines 238-242: the loop reads self.pending_states[stamp] for the stamps of the
\* sorted list, down to the first one that is old enough; a stamp that has left
\* the dict since raises KeyError, which ends the thread
TimerScan(w) ==
    /\ tp[w].pc = "scan"
    /\ LET q == pending_states[w]
           old == {s \in tp[w].stamps : ~(tp[w].now - s < ExitTimeout)}
           young == tp[w].stamps \ old
           read == young \cup (IF old = {} THEN {} ELSE {SetMax(old)})
       IN tp' = [tp EXCEPT ![w] =
                   IF ~(read \subseteq DOMAIN q) THEN TIdle
                   ELSE IF old = {}
                   THEN [@ EXCEPT !.pc = "assign", !.new = QRestrict(q, young)]
                   ELSE [@ EXCEPT !.pc = "store", !.new = QRestrict(q, young),
                                  !.val = q[SetMax(old)], !.at = SetMax(old)]]
    /\ UNCHANGED <<events, clock, settings, store, loading, loaded_time, files_per_window,
                   global_pending, global_timer, gtimers, gt, quit_t0, quit, wstate,
                   uuid, content, pending_states, pending_timer, timers, idle_close,
                   deleted, close_at, claimed, last_commit, added_at, store0, burst_store>>

\* line 242: files_per_window[self.uuid] = <the entry read>; changed = True
TimerStore(w) ==
    /\ tp[w].pc = "store"
    /\ files_per_window' = DictSet(files_per_window, uuid[w], tp[w].val)
    /\ last_commit' = {Commit("timer", uuid[w], tp[w].at, tp[w].now)}
    /\ tp' = [tp EXCEPT ![w].pc = "assign", ![w].changed = TRUE]
    /\ UNCHANGED <<events, clock, settings, store, loading, loaded_time, global_pending,
                   global_timer, gtimers, gt, quit_t0, quit, wstate, uuid, content,
                   pending_states, pending_timer, timers, idle_close, deleted, close_at, claimed,
                   added_at, store0, burst_store>>

\* line 247: self.pending_states = new_pending_states
TimerAssign(w) ==
    /\ tp[w].pc = "assign"
    /\ pending_states' = [pending_states EXCEPT ![w] = tp[w].new]
    /\ tp' = [tp EXCEPT ![w] = IF @.changed THEN [@ EXCEPT !.pc = "save"] ELSE TIdle]
    /\ UNCHANGED <<events, clock, settings, store, loading, loaded_time, files_per_window,
                   global_pending, global_timer, gtimers, gt, quit_t0, quit, wstate,
                   uuid, content, pending_timer, timers, idle_close, deleted, close_at, claimed,
                   last_commit, added_at, store0, burst_store>>

\* lines 249-250: if changed: save_state()
TimerSave(w) ==
    /\ tp[w].pc = "save"
    /\ store' = save_state(files_per_window, store)
    /\ tp' = [tp EXCEPT ![w] = TIdle]
    /\ UNCHANGED <<events, clock, settings, loading, loaded_time, files_per_window,
                   global_pending, global_timer, gtimers, gt, quit_t0, quit, wstate,
                   uuid, content, pending_states, pending_timer, timers, idle_close,
                   deleted, close_at, claimed, last_commit, added_at, store0, burst_store>>

\* ------------------- the thread of the global timer: process_global_pending
GlobalFire ==
    /\ gt.pc = "idle"
    /\ \E d \in gtimers : d <= clock /\ gtimers' = gtimers \ {d}
    /\ gt' = [pc |-> "lock"]
    /\ UNCHANGED <<events, clock, settings, store, loading, loaded_time, files_per_window,
                   global_pending, global_timer, quit_t0, quit, wstate, uuid, content,
                   pending_states, pending_timer, timers, tp, idle_close, deleted, close_at,
                   claimed, last_commit, added_at, store0, burst_store>>

\* lines 151-154: with cls.global_lock: cancel cls.global_timer, set it to None
GlobalLock ==
    /\ gt.pc = "lock"
    /\ gtimers' = CancelRef(global_timer, gtimers)
    /\ global_timer' = NoTimer
    /\ gt' = [pc |-> "resolve"]
    /\ UNCHANGED <<events, clock, settings, store, loading, loaded_time, files_per_window,
                   global_pending, quit_t0, quit, wstate, uuid, content,
                   pending_states, pending_timer, timers, tp, idle_close, deleted, close_at,
                   claimed, last_commit, added_at, store0, burst_store>>

\* lines 156-180: the loop, under cls.global_lock
GlobalResolve ==
    /\ gt.pc = "resolve"
    /\ LET pg == process_global_pending(files_per_window, global_pending, clock) IN
       /\ files_per_window' = pg.files
       /\ global_pending' = pg.gp
       /\ last_commit' = IF pg.changed
                         THEN {Commit("global", e.id, e.at, clock) : e \in pg.ents}
                         ELSE last_commit
       /\ gt' = [pc |-> IF pg.changed THEN "save" ELSE "idle"]
    /\ UNCHANGED <<events, clock, settings, store, loading, loaded_time, global_timer, gtimers,
                   quit_t0, quit, wstate, uuid, content, pending_states,
                   pending_timer, timers, tp, idle_close, deleted, close_at, claimed, added_at, store0,
                   burst_store>>

\* lines 181-182: if changed: cls.save_state()
GlobalSave ==
    /\ gt.pc = "save"
    /\ store' = save_state(files_per_window, store)
    /\ gt' = GIdle
    /\ UNCHANGED <<events, clock, settings, loading, loaded_time, files_per_window,
                   global_pending, global_timer, gtimers, quit_t0, quit, wstate, uuid,
                   content, pending_states, pending_timer, timers, tp, idle_close,
                   deleted, close_at, claimed, last_commit, added_at, store0, burst_store>>

\* --------------------------------------------------------------- the clock
CallbackRunning == gt.pc # "idle" \/ \E w \in Windows : tp[w].pc # "idle"
TimerDue == (\E d \in gtimers : d <= clock) \/ \E w \in Windows : \E d \in timers[w] : d <= clock

Tick ==
    /\ HostIdle
    /\ clock < MaxTime
    /\ ~CallbackRunning /\ ~TimerDue
    /\ clock' = clock + 1
    /\ UNCHANGED <<events, settings, store, loading, loaded_time, files_per_window,
                   global_pending, global_timer, gtimers, gt, quit_t0, quit, wstate,
                   uuid, content, pending_states, pending_timer, timers, tp,
                   idle_close, deleted, close_at, claimed, last_commit, added_at, store0, burst_store>>

\* ------------------------------------------------------------------- Next
\* the events of the windows of W while they are open
TabStep(W) ==
    \E w \in W :
        \/ WindowCreate(w)
        \/ WindowShow(w)
        \/ \E d \in Docs, g \in 1..MaxTabs : TabAdded(w, d, g)
        \/ \E g \in 1..MaxTabs, i \in 1..MaxTabs :
              \/ TabRemoved(w, g, i)
              \/ TabsReordered(w, g, i)
              \/ CloseEmptyTab(w, g, i)
        \/ ActiveTabStateChanged(w)

\* the user closes a window of W
CloseStep(W) == \E w \in W : WindowDelete(w)

\* a window of W is destroyed
DestroyStep(W) == \E w \in W : WindowDeactivate(w)

TimerStep(W) ==
    \E w \in W :
        \/ TimerFire(w) \/ TimerLock(w) \/ TimerSnap(w) \/ TimerScan(w)
        \/ TimerStore(w) \/ TimerAssign(w) \/ TimerSave(w)

GlobalStep == GlobalFire \/ GlobalLock \/ GlobalResolve \/ GlobalSave

Next ==
    \/ TabStep(Windows) \/ CloseStep(Windows) \/ DestroyStep(Windows)
    \/ QuitBegin \/ AppDeactivate
    \/ TimerStep(Windows) \/ GlobalStep \/ Tick

Spec == Init /\ [][Next]_vars

\* The launch: what the windows do within the first tick, from every persisted
\* value, with and without a settings store.
NextLoad ==
    \/ TabStep(Windows) \/ CloseStep(Windows) \/ DestroyStep(Windows)
    \/ QuitBegin \/ AppDeactivate

SpecLoad == Init /\ [][NextLoad]_vars

\* The events of one window, the settings store present, from nothing persisted,
\* from a session of one window, and from one that also holds an empty record.
RunWindows == {1}
RunPayloads ==
    { PayloadNone,
      PayloadDict(<< Entry(A, JsonRec(<< <<"a", "b">> >>)) >>),
      PayloadDict(<< Entry(A, JsonRec(<<>>)), Entry(B, JsonRec(<< <<"a", "b">> >>)) >>) }

InitRun == InitFrom(RunPayloads, {TRUE})

\* ... while the application keeps running: the user may close the window
NextRun ==
    \/ TabStep(RunWindows) \/ CloseStep(RunWindows) \/ DestroyStep(RunWindows)
    \/ TimerStep(RunWindows) \/ GlobalStep \/ Tick

SpecRun == InitRun /\ [][NextRun]_vars

\* ... until the application quits
NextQuit ==
    \/ TabStep(RunWindows) \/ DestroyStep(RunWindows)
    \/ QuitBegin \/ AppDeactivate
    \/ TimerStep(RunWindows) \/ GlobalStep \/ Tick

SpecQuit == InitRun /\ [][NextQuit]_vars

\* Two windows from a session of one window, the first one's active tab
\* changing state: both windows are closed while the application keeps running,
\* so that the global queue takes the entries of two windows.
OpenStep(W) == \E w \in W : WindowCreate(w) \/ WindowShow(w)
StateStep(W) == \E w \in W : ActiveTabStateChanged(w)

InitShare == InitFrom({PayloadDict(<< Entry(A, JsonRec(<< <<"a", "b">> >>)) >>)}, {TRUE})

NextShare ==
    \/ StateStep(RunWindows) \/ OpenStep(Windows)
    \/ CloseStep(Windows) \/ DestroyStep(Windows)
    \/ TimerStep(RunWindows) \/ GlobalStep \/ Tick

SpecShare == InitShare /\ [][NextShare]_vars

\* ------------------------------------------------------------------ claims
\* the application has quit and its quit burst was younger than exit_timeout
ShortQuit == quit /\ clock - quit_t0 < ExitTimeout
NoTimerOutstanding ==
    /\ gtimers = {} /\ global_timer = NoTimer
    /\ \A w \in Windows : timers[w] = {} /\ pending_timer[w] = NoTimer
\* the entries a resolution wrote (not a claim, not an immediate record)
Resolved == {c \in last_commit : c.kind \in {"inline", "timer", "global"}}

C2_OnlyLastCommitted ==
    \A w \in Windows : \A c \in Resolved :
        (c.id = uuid[w] /\ c.kind # "global" /\ DictHas(files_per_window, c.id)
            /\ DictGet(files_per_window, c.id) # <<>>) =>
            \A s \in DOMAIN pending_states[w] :
                (s > c.at /\ pending_states[w][s] # <<>>
                    /\ pending_states[w][s] # DictGet(files_per_window, c.id)) =>
                    s - c.at >= ExitTimeout

\* C2, amended: the entry a resolution of a window commits is the newest entry
\* of the window's queue that is at least exit_timeout old at the resolution's
\* `now`: every later entry of the queue is younger than exit_timeout then.  An
\* earlier record of a burst is committed when a resolution runs after it has
\* turned exit_timeout old and before its successor has.
C2_NewestOldCommitted ==
    [][last_commit' # last_commit =>
          \A w \in Windows : \A c \in last_commit' :
              (c.id = uuid[w] /\ c.kind \in {"inline", "timer"}) =>
                  \A s \in DOMAIN pending_states[w] :
                      s > c.at => c.now - s < ExitTimeout]_vars

\* an earlier record was committed while its successor, recorded within
\* exit_timeout of it, is still waiting
C2_Witness ==
    \E w \in Windows : \E c \in Resolved :
        /\ c.id = uuid[w] /\ c.kind = "inline"
        /\ \E s \in DOMAIN pending_states[w] : s > c.at /\ s - c.at < ExitTimeout

\* C3, as stated: the record of a tentative event is committed after
\* exit_timeout without any further event: while a window is open (no
\* delete-event, no callback of its timer in flight) and its queue holds an
\* entry, a timer of the window is outstanding to resolve it.
C3_EntryHasTimer ==
    \A w \in Windows :
        (wstate[w] = "open" /\ ~deleted[w] /\ tp[w].pc = "idle"
            /\ DOMAIN pending_states[w] # {}) => timers[w] # {}

\* C4, as stated: an immediate record (a tab added outside the loading phase
\* and the blank-tab grace case) supersedes the window's pending queue: no
\* entry recorded before it is committed for the window afterwards.
C4_AddSupersedesPending ==
    \A w \in Windows : \A c \in Resolved :
        (c.id = uuid[w] /\ c.kind # "global" /\ added_at[w] # -1) =>
            c.at >= added_at[w]

\* what is still to happen for window w's id: an entry in the global queue,
\* or a callback in flight
Settled(w) ==
    /\ ~DictHas(global_pending, uuid[w])
    /\ gt.pc = "idle" /\ tp[w].pc = "idle"

\* C5, as stated: after the user has closed a window that had a committed
\* record (delete-event, then its deactivation) the window's id is removed from
\* the committed and the persisted map once its pending-delete entry is
\* resolved: when nothing is left to resolve for the id, the id is in neither
\* map.
C5_ClosedWindowRemoved ==
    \A w \in Windows :
        (claimed[w] = "claimed" /\ wstate[w] = "closed" /\ deleted[w] /\ Settled(w)) =>
            /\ ~DictHas(files_per_window, uuid[w])
            /\ ~DictHas(Decode(store), uuid[w])

\* C6, as stated: a commit of a record for a window id made while a
\* pending-delete entry for that id waits in the global queue wins: no later
\* step removes the id's newly committed record.
C6_NewCommitWins ==
    [][\A c \in last_commit :
          (c.late /\ c.kind # "global" /\ DictHas(files_per_window, c.id)
              /\ DictGet(files_per_window, c.id) # <<>>) =>
              DictHas(files_per_window', c.id)]_vars

\* the record of id in the persisted value the run started from
Persisted0(id) == DictGet(Decode(store0), id).v

\* C7, as stated: the state a window writes back after replaying the record it
\* claims has the same tab groups with the same files in the same order as the
\* persisted record.
C7_RoundTrip ==
    \A c \in last_commit :
        c.kind = "claim" => DictGet(files_per_window, c.id) = Persisted0(c.id)

\* window w has run on_window_show
Shown(w) == claimed[w] # "none"

\* C8, as stated: a window shown during the loading phase never takes a
\* window id another window already has, and it ends its claim procedure
\* without an id of the persisted map only if no unclaimed non-empty record is
\* left there.
C8_DistinctClaims ==
    [][\A w \in Windows :
          (loading /\ settings /\ ~Shown(w) /\ claimed'[w] # "none") =>
              /\ uuid'[w] # uuid[w] =>
                    \A v \in Windows : (v # w /\ Shown(v)) => uuid[v] # uuid'[w]
              /\ uuid'[w] = uuid[w] =>
                    ClaimIndex(Decode(store), files_per_window) = 0]_vars

\* a persisted value that does not decode, or not to a mapping of window ids
\* to lists of lists of strings
Corrupt(payload) ==
    \/ payload.kind \in {"garbage", "nondict"}
    \/ payload.kind = "dict" /\ \E i \in DOMAIN payload.val : payload.val[i].v.t # "rec"

\* C9, as stated: from a corrupt persisted value a shown window claims nothing
\* (it keeps its own id), no error is raised, and the loading phase is over.
C9_CorruptIsEmpty ==
    (settings /\ Corrupt(store0)) =>
        \A w \in Windows :
            Shown(w) => ~loading /\ claimed[w] \in {"noclaim", "late"}
                                 /\ uuid[w] = GenUuid(w)

\* C10, as stated: without a settings store the first window shown ends the
\* loading phase.
C10_ShowEndsLoading ==
    (~settings /\ \E w \in Windows : Shown(w)) => ~loading

\* C10, amended: without a settings store the loading phase never ends, no
\* tab event changes the committed map, a window's queue or the persisted
\* value, and the persisted value never changes at all (save is a no-op).
C10_NoSettingsInert ==
    [][~settings =>
          /\ loading' /\ store' = store
          /\ events' # events =>
                /\ files_per_window' = files_per_window
                /\ pending_states' = pending_states]_vars

\* without a settings store a window holds a file and nothing was recorded
C10_Witness ==
    /\ ~settings /\ events > 0 /\ quit
    /\ \E w \in Windows : Shown(w) /\ "a" \in OpenDocs(content[w])

\* C11: while loading is true a tab event (tab added, tab removed, tabs
\* reordered, active-tab state changed) leaves the committed map, the persisted
\* value, the window's pending queue and the window's timer as they were.
C11_LoadingIgnoresTabEvents ==
    [][(loading /\ events' # events) =>
          /\ files_per_window' = files_per_window
          /\ store' = store
          /\ pending_states' = pending_states
          /\ pending_timer' = pending_timer
          /\ timers' = timers]_vars

\* a tab event has been delivered to a window holding a file while loading was
\* true, with the settings store present
C11_Witness ==
    /\ loading /\ settings /\ events = MaxEvents
    /\ \E w \in Windows : Shown(w) /\ OpenDocs(content[w]) \cap Files # {}

\* a dict as the set of its items
Items(d) == {<<d[i].k, d[i].v>> : i \in DOMAIN d}
\* the persisted value read back as a map of window records
PersistedMap == {<<e[1], e[2].v>> : e \in Items(Decode(store))}

\* C12, as stated: with the store available, whenever no operation is in
\* progress after the loading phase the persisted map equals the committed map.
C12_PersistedIsCommitted ==
    (settings /\ ~loading /\ ~CallbackRunning) =>
        PersistedMap = Items(files_per_window)

\* C12, amended: with the store available, whenever no operation is in progress
\* after the loading phase the persisted value is the encoding of the committed
\* map, or it is still the value read at launch (nothing was saved yet).
C12_PersistedOrUntouched ==
    (settings /\ ~loading /\ ~CallbackRunning) =>
        store = Encode(files_per_window) \/ store = store0

\* a timer callback's resolution has committed and persisted a record that
\* differs from the one persisted at launch, and nothing is in progress
C12_Witness ==
    /\ settings /\ ~loading /\ ~CallbackRunning
    /\ store # store0 /\ store = Encode(files_per_window)
    /\ \E c \in last_commit : c.kind = "timer"

\* C13: each owner of a pending queue (each window, and the application for
\* the global queue) has at most one timer that is started, not yet fired and
\* not cancelled, in every state of every interleaving of handlers and callbacks.
C13_OneTimerPerOwner ==
    /\ Cardinality(gtimers) <= 1
    /\ \A w \in Windows : Cardinality(timers[w]) <= 1

\* the global timer was scheduled again while it was outstanding: the global
\* queue holds the young entries of two windows under one timer, and one of the
\* windows had rescheduled its own timer before (two of its entries wait)
C13_Witness ==
    /\ gtimers = {Deadline(clock)} /\ global_timer = Deadline(clock) /\ clock > 0
    /\ Len(global_pending) = 2
    /\ \E i \in DOMAIN global_pending : Cardinality(DOMAIN global_pending[i].v) >= 2
    /\ \A w \in Windows : Cardinality(timers[w]) = 0

\* the queue of id in a global queue gp (empty when id has none)
GQueue(gp, id) == IF DictHas(gp, id) THEN DictGet(gp, id) ELSE EmptyQ
\* q2 holds exactly the entries of q younger than exit_timeout at now, unchanged
\* (ins: the stamps of the entries the handler inserts after its pass)
KeepsYoung(q, q2, now, ins) ==
    /\ \A s \in DOMAIN q \ ins :
          (now - s < ExitTimeout) => (s \in DOMAIN q2 /\ q2[s] = q[s])
    /\ \A s \in DOMAIN q : ~(now - s < ExitTimeout) => s \notin DOMAIN q2
    /\ DOMAIN q2 \subseteq DOMAIN q \cup ins
\* stamp at is the greatest stamp of q that is exit_timeout old at now
GreatestOld(q, at, now) ==
    /\ at \in DOMAIN q /\ ~(now - at < ExitTimeout)
    /\ \A s \in DOMAIN q : ~(now - s < ExitTimeout) => s <= at

\* C14: a resolution pass with time now over a queue commits at most one
\* entry, the one with the greatest stamp among those at least exit_timeout old;
\* afterwards the queue holds exactly the entries younger than exit_timeout,
\* unchanged, and the entries older than the committed one are gone without
\* having been committed.  The pass of a handler is one step; the pass of the
\* timer callback is over the entries it has listed (tp[w].stamps) at its own
\* now; the global pass is over the queue of each window id.
C14_PassCommitsGreatestOld ==
    [][/\ \A w \in Windows :
            LET q == pending_states[w] IN
            \* the handlers: on_tab_change_event, delete-event, do_deactivate
            /\ (tp'[w] = tp[w] /\ pending_states'[w] # q
                               /\ NumTabs(content'[w]) <= NumTabs(content[w]))
                  => KeepsYoung(q, pending_states'[w], clock,
                                IF \/ events' # events \/ deleted' # deleted
                                   \/ idle_close' # idle_close
                                THEN {clock} ELSE {})
            /\ \A c \in last_commit' :
                  (last_commit' # last_commit /\ c.kind = "inline" /\ c.id = uuid[w])
                     => /\ GreatestOld(q, c.at, clock)
                        /\ DictGet(files_per_window', c.id) = q[c.at]
                        /\ \A c2 \in last_commit' : c2.kind = "inline" => c2 = c
            \* the timer callback: what it reads, what it writes
            /\ (tp[w].pc = "scan" /\ tp'[w].pc \in {"store", "assign"})
                  => LET read == QRestrict(q, tp[w].stamps) IN
                     /\ KeepsYoung(read, tp'[w].new, tp[w].now, {})
                     /\ IF tp'[w].pc = "store"
                        THEN /\ GreatestOld(read, tp'[w].at, tp[w].now)
                             /\ tp'[w].val = read[tp'[w].at]
                        ELSE \A s \in DOMAIN read : tp[w].now - s < ExitTimeout
            /\ (tp[w].pc = "store" /\ tp'[w] # tp[w])
                  => /\ DictGet(files_per_window', uuid[w]) = tp[w].val
                     /\ pending_states' = pending_states
            /\ (tp[w].pc = "assign" /\ tp'[w] # tp[w])
                  => pending_states'[w] = tp[w].new
       \* the global pass
       /\ \A id \in DictKeys(global_pending) :
            (global_pending' # global_pending
                /\ \A w \in Windows : uuid[w] = id => wstate'[w] = wstate[w])
              => KeepsYoung(GQueue(global_pending, id), GQueue(global_pending', id),
                            clock, {})
       /\ \A c \in last_commit' :
            (last_commit' # last_commit /\ c.kind = "global")
               => LET gq == GQueue(global_pending, c.id) IN
                  /\ GreatestOld(gq, c.at, clock)
                  /\ IF gq[c.at] = <<>> THEN ~DictHas(files_per_window', c.id)
                     ELSE DictGet(files_per_window', c.id) = gq[c.at]
                  /\ \A c2 \in last_commit' : c2.id = c.id => c2 = c]_vars

\* a handler's pass has committed the older of two entries of a window and
\* kept the younger one
C14_Witness ==
    \E w \in Windows : \E c \in last_commit :
        /\ c.kind = "inline" /\ c.id = uuid[w] /\ c.now = clock
        /\ \E s \in DOMAIN pending_states[w] : c.at < s /\ s < c.now
        /\ DictGet(files_per_window, c.id) # <<>>

\* C15, as stated: the records committed for a window are committed in the
\* order they were observed: a resolution never commits an entry older than a
\* record already committed for the window, by a resolution or by an immediate
\* commit.
C15_CommitsInOrder ==
    [][\A w \in Windows : \A c \in last_commit' :
          (last_commit' # last_commit /\ c.kind \in {"inline", "timer", "global"}
                                     /\ c.id = uuid[w])
             => /\ added_at[w] <= c.at
                /\ \A p \in last_commit : p.id = c.id => p.at <= c.at]_vars

\* the timer callback of w is inside its pass: it has listed the stamps of the
\* queue and has not yet replaced the queue
PassInProgress(w) == tp[w].pc \in {"scan", "store", "assign"}

\* C16, as stated: the handlers and the timer callback of a window are
\* serialized: while the callback's resolution pass is in progress no handler
\* of the window runs a pass, a cancel or an insert on the window's queue, nor
\* writes the window's committed record.
C16_PassesSerialized ==
    [][\A w \in Windows :
          (PassInProgress(w) /\ tp'[w] = tp[w])
             => /\ pending_states'[w] = pending_states[w]
                /\ pending_timer'[w] = pending_timer[w]
                /\ DictHas(files_per_window', uuid[w]) = DictHas(files_per_window, uuid[w])
                /\ DictHas(files_per_window, uuid[w])
                      => DictGet(files_per_window', uuid[w]) = DictGet(files_per_window, uuid[w])]_vars

\* C17, as stated: when the latest write to the committed map is a
\* resolution's (of a window or global), the id it resolved is not mapped to
\* the empty record: resolving an empty entry leaves the id absent.
C17_EmptyEntryRemoves ==
    \A c \in Resolved :
        DictHas(files_per_window, c.id) => DictGet(files_per_window, c.id) # <<>>

\* a window record without an empty tab group
NoEmptyGroup(rec) == \A g \in DOMAIN rec : rec[g] # <<>>

\* C18, as stated: no window record of the committed map, of a pending queue
\* (of a window or global) or of the persisted map contains an empty tab group.
C18_NoEmptyGroupStored ==
    /\ \A i \in DOMAIN files_per_window : NoEmptyGroup(files_per_window[i].v)
    /\ \A w \in Windows : \A s \in DOMAIN pending_states[w] :
          NoEmptyGroup(pending_states[w][s])
    /\ \A i \in DOMAIN global_pending : \A s \in DOMAIN global_pending[i].v :
          NoEmptyGroup(global_pending[i].v[s])
    /\ \A i \in DOMAIN Decode(store) :
          Decode(store)[i].v.t = "rec" => NoEmptyGroup(Decode(store)[i].v.v)

\* C19, as stated: a window that ends its claim procedure (loading, settings
\* present, a well-formed persisted map) spawns another window if and only if
\* an unclaimed non-empty record remains in the persisted map.
C19_SpawnIffRecordLeft ==
    [][\A w \in Windows :
          (loading /\ settings /\ ~Corrupt(store0) /\ ~Shown(w) /\ claimed'[w] # "none")
             => ((\E v \in Windows : wstate[v] # "spawned" /\ wstate'[v] = "spawned")
                   <=> ClaimIndex(Decode(store), files_per_window') # 0)]_vars

\* the run started with a settings store and a well-formed persisted map
WellLaunched == settings /\ ~Corrupt(store0)
\* the windows the claim protocol has spawned: every window but the first that
\* is spawned or has run its claim procedure while loading
SpawnedWindows ==
    {w \in Windows \ {1} : wstate[w] = "spawned" \/ claimed[w] \in {"claimed", "noclaim"}}

\* C20: from a well-formed persisted map the claim protocol terminates: it
\* spawns at most as many windows as there are persisted records; once the
\* first window's show handler has returned (no spawned window is still inside
\* its show) loading is false; and in the step that ends loading every window
\* id with a non-empty persisted record is a key of the committed map.
C20_ClaimProtocolTerminates ==
    /\ [](WellLaunched =>
            /\ Cardinality(SpawnedWindows) <= Len(Decode(store0))
            /\ ((\E w \in Windows : Shown(w)) /\ (\A w \in Windows : wstate[w] # "spawned"))
                  => ~loading)
    /\ [][(WellLaunched /\ loading /\ ~loading') =>
             \A i \in DOMAIN Decode(store0) :
                Truthy(Decode(store0)[i].v) => DictHas(files_per_window', Decode(store0)[i].k)]_vars

\* loading has ended after a spawned window claimed the second of two records
C20_Witness ==
    /\ WellLaunched /\ ~loading /\ Len(Decode(store0)) = 2
    /\ \A w \in Windows : claimed[w] = "claimed"
    /\ Len(files_per_window) = 2

\* the window's queue holds entries and none of its timers is outstanding
QueueUntimed(w) == DOMAIN pending_states[w] # {} /\ timers[w] = {}
\* the latest write to files_per_window resolved, for window w, the entry
\* stamped with the window's delete-event, and the record it left is empty
CloseCandidateCommitted(w) ==
    /\ close_at[w] # -1
    /\ \E c \in last_commit :
          /\ c.kind \in {"inline", "timer"} /\ c.id = uuid[w] /\ c.at = close_at[w]
    /\ DictHas(files_per_window, uuid[w])
    /\ DictGet(files_per_window, uuid[w]) = <<>>

\* C21, as stated: whenever no handler or timer callback is in progress and
\* the queue of a window that is still open is non-empty, a resolution timer
\* of that window is outstanding, also after a delete-event that the window's
\* deactivation has not followed; hence the empty candidate of a delete-event
\* is never committed as the record of a window that is still open.
C21_OpenQueueHasTimer ==
    \A w \in Windows :
        wstate[w] = "open" =>
            /\ (~CallbackRunning => ~QueueUntimed(w))
            /\ ~CloseCandidateCommitted(w)

=============================================================================
